---- MODULE Spec2Model ----
(***************************************************************************)
(* Duplicate detection (lib/duplicates.js, lib/csv.js), variation          *)
(* generation (lib/ai.js) and batch orchestration (lib/batch.js) of        *)
(* fix-duplicates-ai.                                                      *)
(*                                                                         *)
(* A JavaScript string is modelled as a sequence of one-character strings, *)
(* so that trim, startsWith, template concatenation, join and split are    *)
(* computed character by character as the runtime computes them.           *)
(***************************************************************************)
EXTENDS Integers, Sequences, FiniteSets, TLC

VARIABLES
    data,             \* the parsed rows handed to findDuplicatesInData
    excludedFields,   \* the configured excluded field names
    cleaned,          \* cleanCSVData's result
    occurrenceMap,    \* countOccurrences' result
    result,           \* findDuplicates' annotated rows
    duplicates,       \* findDuplicates' duplicates subset
    fieldLists,       \* per cleaned row, the local duplicateFields array of findDuplicates
    fieldName,        \* generateVariation's fieldName argument
    promptType,       \* getPromptType's result
    promptFunction,   \* getPromptFunction's result
    response,         \* response.message.content of the chat call
    outcome,          \* how generateVariation settled: returned value or thrown error
    batchSize,        \* generateVariationsForDuplicates' batchSize argument
    i,                \* its loop variable
    tasks,            \* the async row callbacks of the processBatch call in progress
    variations,       \* its variations array
    issued,           \* chat calls sent so far, counted per (row position, field)
    settled,          \* how each generateVariation call settled, per (row position, field)
    reordered,        \* some row finished while an earlier row of its chunk was still waiting
    files,            \* the output files written, by path
    csvRows,          \* the table in the input file, as written there
    entry,            \* the function at the bottom of the call stack
    exitCode,         \* the status the process exited with
    sanInput,         \* the argument of a direct cleanVariation call
    passes,           \* the results of cleanVariation applied to it, once and again
    reports,          \* the progress updates log.batchProgress has printed
    legacy,           \* cleaned, occurrenceMap, result and duplicates of duplicate-lines.js
    pc

detVars == <<data, excludedFields, cleaned, occurrenceMap, result, fieldLists>>
genVars == <<fieldName, promptType, promptFunction, response, outcome>>
batchVars == <<batchSize, i, tasks, variations, issued, settled, reordered>>
sanVars == <<sanInput, passes>>
mainVars == <<csvRows, entry>>
vars == <<detVars, duplicates, genVars, batchVars, files, sanVars, mainVars, legacy, reports, exitCode, pc>>

----------------------------------------------------------------------------
(* Bounds of the model *)

\* longest dataset handed to findDuplicatesInData
MaxRows == 3

\* most words in a field name handed to getPromptType
MaxWords == 3

\* most tokens in a chat response handed to generateVariation
MaxTokens == 3

\* longest duplicates list handed to generateVariationsForDuplicates
MaxDuplicates == 3

\* largest batch size handed to generateVariationsForDuplicates
MaxBatchSize == 2

\* longest input table of a whole run of main
MaxMainRows == 3

\* number of times cleanVariation is applied in a row to one text
MaxPasses == 2

----------------------------------------------------------------------------
(* String primitives of the JavaScript runtime *)

\* the characters String.prototype.trim removes
IsWhitespace(c) == c \in {" ", "\n", "\r", "\t"}

RECURSIVE TrimStart(_)
TrimStart(s) ==
    IF s # <<>> /\ IsWhitespace(Head(s)) THEN TrimStart(Tail(s)) ELSE s

RECURSIVE TrimEnd(_)
TrimEnd(s) ==
    IF s # <<>> /\ IsWhitespace(s[Len(s)]) THEN TrimEnd(SubSeq(s, 1, Len(s) - 1)) ELSE s

\* String.prototype.trim
Trim(s) == TrimEnd(TrimStart(s))

\* Array.prototype.join
RECURSIVE Join(_, _)
Join(parts, sep) ==
    IF parts = <<>> THEN <<>>
    ELSE IF Len(parts) = 1 THEN parts[1]
    ELSE parts[1] \o sep \o Join(Tail(parts), sep)

\* object spread with one overriding property: { ...obj, [k]: v }
Spread(obj, k, v) == [x \in (DOMAIN obj) \cup {k} |-> IF x = k THEN v ELSE obj[x]]

\* String.prototype.startsWith / endsWith
StartsWith(s, p) == Len(p) <= Len(s) /\ SubSeq(s, 1, Len(p)) = p
EndsWith(s, p) == Len(p) <= Len(s) /\ SubSeq(s, Len(s) - Len(p) + 1, Len(s)) = p

\* 0-based positions at which p occurs in s
Occurrences(s, p) == { n \in 0..(Len(s) - Len(p)) : SubSeq(s, n + 1, n + Len(p)) = p }

Least(S) == CHOOSE n \in S : \A m \in S : n <= m
Greatest(S) == CHOOSE n \in S : \A m \in S : m <= n

\* String.prototype.indexOf / lastIndexOf / includes
IndexOf(s, p) == IF Occurrences(s, p) = {} THEN -1 ELSE Least(Occurrences(s, p))
LastIndexOf(s, p) == IF Occurrences(s, p) = {} THEN -1 ELSE Greatest(Occurrences(s, p))
Includes(s, p) == Occurrences(s, p) # {}

Clamp(n, len) == IF n < 0 THEN 0 ELSE IF n > len THEN len ELSE n

\* String.prototype.substring(a, b): both ends clamped to 0..length, swapped when a > b
Substring(s, a, b) ==
    LET x == Clamp(a, Len(s))
        y == Clamp(b, Len(s))
    IN  IF x <= y THEN SubSeq(s, x + 1, y) ELSE SubSeq(s, y + 1, x)

\* String.prototype.substring(a)
SubstringFrom(s, a) == Substring(s, a, Len(s))

\* String.prototype.slice(n) and slice(0, -n), n >= 0
SliceFrom(s, n) == SubSeq(s, Clamp(n, Len(s)) + 1, Len(s))
SliceDropLast(s, n) == SubSeq(s, 1, Len(s) - Clamp(n, Len(s)))

UpperCase == << "A", "B", "C", "D", "E", "F", "G", "H", "I", "J", "K", "L", "M",
                "N", "O", "P", "Q", "R", "S", "T", "U", "V", "W", "X", "Y", "Z" >>
LowerCase == << "a", "b", "c", "d", "e", "f", "g", "h", "i", "j", "k", "l", "m",
                "n", "o", "p", "q", "r", "s", "t", "u", "v", "w", "x", "y", "z" >>

\* String.prototype.toLowerCase
ToLowerCase(s) ==
    [n \in 1..Len(s) |->
        IF \E u \in 1..Len(UpperCase) : UpperCase[u] = s[n]
        THEN LowerCase[CHOOSE u \in 1..Len(UpperCase) : UpperCase[u] = s[n]]
        ELSE s[n]]

----------------------------------------------------------------------------
(* Field names, values and rows of the input table *)

ID == <<"I", "D">>
Handle == <<"H", "a", "n", "d", "l", "e">>
Command == <<"C", "o", "m", "m", "a", "n", "d">>
\* two compared columns; the name of the second extends the first by ":x"
Title == <<"T">>
TitleX == <<"T", ":", "x">>
TitleC == <<"T", ",", "c">>

\* the key under which the parser stores the cells a row has beyond the header
ParsedExtra == <<"_", "_", "p", "a", "r", "s", "e", "d", "_", "e", "x", "t", "r", "a">>

\* a truthy value that is no string and has no trim method (the array of extra cells)
NonString == << "non-string" >>

\* a falsy value that is no string: null
Null == << "null" >>

\* the content of an input file that cannot be read
NoFile == << << "no file" >> >>

\* column order of the parsed table
FieldOrder == <<ID, Title, TitleX>>

\* the two column names of duplicate-lines.js
ROW_NAME == <<"B", "o", "d", "y", " ", "H", "T", "M", "L">>
ROW_NAME_ALT == <<>>

\* the order Object.keys yields: the columns, a column whose name holds a
\* comma, the body column and a column without a name when the table has
\* them, then the key of the extra cells
KeyOrder == FieldOrder \o << TitleC, ROW_NAME, ROW_NAME_ALT, ParsedExtra >>

KeyDuplicate == <<"d", "u", "p", "l", "i", "c", "a", "t", "e">>
KeyDuplicateFields == KeyDuplicate \o <<"F", "i", "e", "l", "d", "s">>
StrTrue == <<"t", "r", "u", "e">>
StrFalse == <<"f", "a", "l", "s", "e">>

\* row identifiers: the decimal digit of the row's position in the file
IdOf(n) == <<CASE n = 1 -> "1" [] n = 2 -> "2" [] n = 3 -> "3" [] n = 4 -> "4"
                  [] n = 5 -> "5" [] n = 6 -> "6" [] OTHER -> "9">>

TitleValues == { <<" ">>, <<"v">>, <<" ", "v">>, <<"x", ":", "v">> }
TitleXValues == { <<>>, <<"v">>, <<"V">> }

\* the row at position n of the file holding the given two column values
MkRow(n, t, tx) ==
    [k \in {ID, Title, TitleX} |-> IF k = ID THEN IdOf(n) ELSE IF k = Title THEN t ELSE tx]

RowsAt(n) == { MkRow(n, t, tx) : t \in TitleValues, tx \in TitleXValues }

RECURSIVE Datasets(_)
Datasets(n) ==
    IF n = 0 THEN { <<>> }
    ELSE LET shorter == Datasets(n - 1)
         IN  shorter \cup { Append(d, r) : d \in { x \in shorter : Len(x) = n - 1 }, r \in RowsAt(n) }

ExcludedChoices == { {Handle, ID, Command}, {}, {ID, Title} }

----------------------------------------------------------------------------
(* lib/csv.js *)

\* the callback of some() returns true for the key at position c
KeepAt(row, excluded, c) ==
    /\ KeyOrder[c] \in DOMAIN row
    /\ KeyOrder[c] \notin excluded
    /\ row[KeyOrder[c]] \notin { <<>>, Null, NonString }
    /\ Trim(row[KeyOrder[c]]) # <<>>

\* the callback of some() throws for the key at position c: a truthy value
\* without a trim method
ThrowAt(row, excluded, c) ==
    /\ KeyOrder[c] \in DOMAIN row
    /\ KeyOrder[c] \notin excluded
    /\ row[KeyOrder[c]] = NonString

\* the filter predicate without the excluded-field test
CleanRowKeepAnyField(row, excluded) ==
    \E c \in 1..Len(KeyOrder) : KeepAt(row, {}, c)

\* the filter predicate of cleanCSVData: some non-excluded key holds a
\* truthy value whose trim is not ''
CleanRowKeep(row, excluded) ==
    \E c \in 1..Len(KeyOrder) : KeepAt(row, excluded, c)

\* some() stops at the first key it returns true for; it throws when it
\* meets a throwing key before
CleanRowThrows(row, excluded) ==
    \E c \in 1..Len(KeyOrder) :
        /\ ThrowAt(row, excluded, c)
        /\ \A b \in 1..(c - 1) : ~KeepAt(row, excluded, b)

cleanCSVDataThrows(d, excluded) == \E n \in 1..Len(d) : CleanRowThrows(d[n], excluded)

cleanCSVData(d, excluded) == SelectSeq(d, LAMBDA row : CleanRowKeep(row, excluded))

----------------------------------------------------------------------------
(* lib/duplicates.js *)

\* getFieldValues: the entries [field, trimmed value] in key order
getFieldValues(row, excluded) ==
    LET keep(k) == /\ k \in DOMAIN row /\ k \notin excluded
                   /\ row[k] \notin { <<>>, Null } /\ Trim(row[k]) # <<>>
        ks == SelectSeq(KeyOrder, keep)
    IN  [j \in 1..Len(ks) |-> <<ks[j], Trim(row[ks[j]])>>]

\* the forEach of getFieldValues visits every key: it throws on a truthy
\* value without a trim method under a key that is not excluded
getFieldValuesThrows(row, excluded) ==
    \E k \in (DOMAIN row) \ excluded : row[k] = NonString

countOccurrencesThrows(d, excluded) ==
    \E n \in 1..Len(d) : getFieldValuesThrows(d[n], excluded)

\* the template literal ${field}:${value}
MapKey(field, value) == field \o <<":">> \o value

\* Map.get(key) || 0
MapGet(map, key) == IF key \in DOMAIN map THEN map[key] ELSE 0

\* Map.set(key, n)
MapSet(map, key, n) == [x \in (DOMAIN map) \cup {key} |-> IF x = key THEN n ELSE map[x]]

RECURSIVE CountEntries(_, _)
CountEntries(map, entries) ==
    IF entries = <<>> THEN map
    ELSE LET key == MapKey(Head(entries)[1], Head(entries)[2])
         IN  CountEntries(MapSet(map, key, MapGet(map, key) + 1), Tail(entries))

RECURSIVE CountRows(_, _, _)
CountRows(map, d, excluded) ==
    IF d = <<>> THEN map
    ELSE CountRows(CountEntries(map, getFieldValues(Head(d), excluded)), Tail(d), excluded)

EmptyMap == [x \in {} |-> 0]

countOccurrences(d, excluded) == CountRows(EmptyMap, d, excluded)

\* the forEach over one row's entries in findDuplicates; acc is
\* [seen, isDuplicate, duplicateFields]
RECURSIVE CheckEntries(_, _, _)
CheckEntries(acc, entries, map) ==
    IF entries = <<>> THEN acc
    ELSE LET field == Head(entries)[1]
             key == MapKey(field, Head(entries)[2])
             next ==
                 IF MapGet(map, key) > 1
                 THEN IF key \notin acc.seen
                      THEN [acc EXCEPT !.seen = @ \cup {key}]
                      ELSE [acc EXCEPT !.isDuplicate = TRUE,
                                       !.duplicateFields = Append(@, field)]
                 ELSE acc
         IN  CheckEntries(next, Tail(entries), map)

\* the data.map callback chain of findDuplicates; st is
\* [seen, result, duplicates, lists], lists recording each row's local
\* duplicateFields array
RECURSIVE ClassifyRows(_, _, _, _)
ClassifyRows(st, d, map, excluded) ==
    IF d = <<>> THEN st
    ELSE LET row == Head(d)
             r == CheckEntries([seen |-> st.seen, isDuplicate |-> FALSE, duplicateFields |-> <<>>],
                               getFieldValues(row, excluded), map)
             joined == Join(r.duplicateFields, <<",">>)
             next ==
                 IF r.isDuplicate
                 THEN [seen |-> r.seen,
                       result |-> Append(st.result,
                                         Spread(Spread(row, KeyDuplicate, StrTrue),
                                                KeyDuplicateFields, joined)),
                       duplicates |-> Append(st.duplicates,
                                             Spread(row, KeyDuplicateFields, joined)),
                       lists |-> Append(st.lists, r.duplicateFields)]
                 ELSE [seen |-> r.seen,
                       result |-> Append(st.result,
                                         Spread(Spread(row, KeyDuplicate, StrFalse),
                                                KeyDuplicateFields, <<>>)),
                       duplicates |-> st.duplicates,
                       lists |-> Append(st.lists, r.duplicateFields)]
         IN  ClassifyRows(next, Tail(d), map, excluded)

\* findDuplicates with the duplicates subset taken before the seen check:
\* every annotated row is pushed
findDuplicatesAllRows(d, map, excluded) ==
    LET st == ClassifyRows([seen |-> {}, result |-> <<>>, duplicates |-> <<>>, lists |-> <<>>],
                           d, map, excluded)
    IN  [result |-> st.result,
         duplicates |-> [n \in 1..Len(d) |-> Spread(d[n], KeyDuplicateFields, st.result[n][KeyDuplicateFields])],
         lists |-> st.lists]

findDuplicates(d, map, excluded) ==
    LET st == ClassifyRows([seen |-> {}, result |-> <<>>, duplicates |-> <<>>, lists |-> <<>>],
                           d, map, excluded)
    IN  [result |-> st.result, duplicates |-> st.duplicates, lists |-> st.lists]

----------------------------------------------------------------------------
(* lib/ai.js *)

\* a value that is no string: what reading a missing property yields
Undefined == << "undefined" >>

PROMPT_TYPES ==
    [TITLE |-> <<"t", "i", "t", "l", "e">>,
     DESCRIPTION |-> <<"d", "e", "s", "c", "r", "i", "p", "t", "i", "o", "n">>,
     HTML |-> <<"h", "t", "m", "l">>,
     GENERAL |-> <<"g", "e", "n", "e", "r", "a", "l">>]

\* getPromptType with the description test not guarded by the html test
getPromptTypeUnguarded(name) ==
    LET lowerFieldName == ToLowerCase(name)
    IN  IF Includes(lowerFieldName, <<"t", "i", "t", "l", "e">>) THEN PROMPT_TYPES.TITLE
        ELSE IF Includes(lowerFieldName, <<"d", "e", "s", "c", "r", "i", "p", "t", "i", "o", "n">>)
        THEN PROMPT_TYPES.DESCRIPTION
        ELSE IF Includes(lowerFieldName, <<"h", "t", "m", "l">>) THEN PROMPT_TYPES.HTML
        ELSE PROMPT_TYPES.GENERAL

getPromptType(name) ==
    LET lowerFieldName == ToLowerCase(name)
    IN  IF Includes(lowerFieldName, <<"t", "i", "t", "l", "e">>) THEN PROMPT_TYPES.TITLE
        ELSE IF /\ Includes(lowerFieldName, <<"d", "e", "s", "c", "r", "i", "p", "t", "i", "o", "n">>)
                /\ ~Includes(lowerFieldName, <<"h", "t", "m", "l">>)
        THEN PROMPT_TYPES.DESCRIPTION
        ELSE IF Includes(lowerFieldName, <<"h", "t", "m", "l">>) THEN PROMPT_TYPES.HTML
        ELSE PROMPT_TYPES.GENERAL

\* getPromptFunction: the imported template function, by its name
getPromptFunction(name) ==
    LET type == getPromptType(name)
    IN  CASE type = PROMPT_TYPES.TITLE -> "getTitlePrompt"
          [] type = PROMPT_TYPES.DESCRIPTION -> "getDescriptionPrompt"
          [] type = PROMPT_TYPES.HTML -> "getBodyPrompt"
          [] OTHER -> "getGeneralPrompt"

\* the character U+0060 (a string literal of the module cannot hold it)
Backtick == "U+0060"

TripleQuote == << "\"", "\"", "\"" >>
Fence == << Backtick, Backtick, Backtick >>
CommentOpen == << "<", "!", "-", "-" >>
CommentClose == << "-", "-", ">" >>

\* cleanVariation, one operator per if statement, each on the current string
StripLeadingTripleQuote(c) == IF StartsWith(c, TripleQuote) THEN SliceFrom(c, 3) ELSE c

\* the second if statement removing one character only
StripTrailingTripleQuoteByOne(c) == IF EndsWith(c, TripleQuote) THEN SliceDropLast(c, 1) ELSE c

StripTrailingTripleQuote(c) == IF EndsWith(c, TripleQuote) THEN SliceDropLast(c, 3) ELSE c

StripCodeBlock(c) ==
    IF StartsWith(c, Fence)
    THEN IF LastIndexOf(c, Fence) > 0
         THEN LET opened == SubstringFrom(c, IndexOf(c, <<"\n">>) + 1)
              IN  Trim(Substring(opened, 0, LastIndexOf(opened, Fence)))
         ELSE Trim(SubstringFrom(c, IndexOf(c, <<"\n">>) + 1))
    ELSE c

StripLeadingQuote(c) ==
    IF StartsWith(c, <<"\"">>) \/ StartsWith(c, <<Backtick>>) THEN SliceFrom(c, 1) ELSE c

StripTrailingQuote(c) ==
    IF EndsWith(c, <<"\"">>) \/ EndsWith(c, <<Backtick>>) THEN SliceDropLast(c, 1) ELSE c

StripLeadingComment(c) ==
    IF StartsWith(c, CommentOpen)
    THEN Trim(SubstringFrom(c, IndexOf(c, CommentClose) + 3))
    ELSE c

StripTrailingComment(c) ==
    IF EndsWith(c, CommentClose)
    THEN Trim(Substring(c, 0, LastIndexOf(c, CommentOpen)))
    ELSE c

StripTrailingNewlines(c) ==
    IF EndsWith(c, <<"\n">>) \/ EndsWith(c, <<"\r", "\n">>) THEN Trim(c) ELSE c

\* the value of cleaned when cleanVariation reaches its code block test, its
\* leading comment test and its trailing comment test
BeforeCodeBlock(variation) == StripTrailingTripleQuote(StripLeadingTripleQuote(variation))
BeforeLeadingComment(variation) ==
    StripTrailingQuote(StripLeadingQuote(StripCodeBlock(BeforeCodeBlock(variation))))
BeforeTrailingComment(variation) == StripLeadingComment(BeforeLeadingComment(variation))

\* cleanVariation with a final trim that does not depend on a trailing newline
cleanVariationTrimming(variation) ==
    Trim(StripTrailingComment(StripLeadingComment(
        StripTrailingQuote(StripLeadingQuote(StripCodeBlock(
            StripTrailingTripleQuote(StripLeadingTripleQuote(variation))))))))

cleanVariation(variation) ==
    StripTrailingNewlines(StripTrailingComment(StripLeadingComment(
        StripTrailingQuote(StripLeadingQuote(StripCodeBlock(
            StripTrailingTripleQuote(StripLeadingTripleQuote(variation))))))))

Returned(v) == [kind |-> "returned", value |-> v]
Thrown == [kind |-> "thrown", value |-> Undefined]
Pending == [kind |-> "pending", value |-> Undefined]

\* generateVariation after the chat call resolved, with the triple-quote
\* test made on the content as received
SettleUntrimmed(content) ==
    IF StartsWith(content, TripleQuote) THEN Thrown ELSE Returned(cleanVariation(content))

\* generateVariation after the chat call resolved with the given content
Settle(content) ==
    LET rawVariation == Trim(content)
    IN  IF StartsWith(rawVariation, TripleQuote) THEN Thrown
        ELSE Returned(cleanVariation(rawVariation))

----------------------------------------------------------------------------
(* Inputs of the lib/ai.js functions *)

WordBody == <<"B", "o", "d", "y">>
WordHTML == <<"H", "T", "M", "L">>
WordHtml == <<"h", "t", "m", "l">>
WordDescription == <<"D", "e", "s", "c", "r", "i", "p", "t", "i", "o", "n">>
WordSEO == <<"S", "E", "O">>
WordTitle == <<"T", "i", "t", "l", "e">>
WordSubtitles == <<"S", "u", "b", "t", "i", "t", "l", "e", "s">>
WordMeta == <<"M", "e", "t", "a">>
WordRandom == <<"R", "a", "n", "d", "o", "m">>
WordField == <<"F", "i", "e", "l", "d">>

Words ==
    { WordBody, WordHTML, WordHtml, WordDescription, WordSEO, WordTitle, WordSubtitles,
      WordMeta, WordRandom, WordField }

\* the sequences of at most n elements of S
RECURSIVE SeqsUpTo(_, _)
SeqsUpTo(S, n) ==
    IF n = 0 THEN { <<>> }
    ELSE LET shorter == SeqsUpTo(S, n - 1)
         IN  shorter \cup { Append(q, x) : q \in { y \in shorter : Len(y) = n - 1 }, x \in S }

\* field names: up to MaxWords words separated by one space
FieldNames == { Join(ws, <<" ">>) : ws \in SeqsUpTo(Words, MaxWords) }

Tokens ==
    { TripleQuote, Fence, <<"\"">>, <<Backtick>>, <<"\n">>, <<" ">>, <<"y">>,
      CommentOpen, CommentClose, WordHtml }

\* chat response contents: up to MaxTokens tokens, concatenated
Responses == { Join(ts, <<>>) : ts \in SeqsUpTo(Tokens, MaxTokens) }

GenFieldNames ==
    { Join(<<WordBody, WordHTML, WordDescription>>, <<" ">>), Join(<<WordSEO, WordTitle>>, <<" ">>),
      Join(<<WordMeta, WordDescription>>, <<" ">>), Join(<<WordRandom, WordField>>, <<" ">>) }

----------------------------------------------------------------------------
(* generateVariation *)

DetIdle ==
    /\ data = <<>>
    /\ excludedFields = {}
    /\ cleaned = <<>>
    /\ occurrenceMap = EmptyMap
    /\ result = <<>>
    /\ fieldLists = <<>>

\* the single-field script has computed nothing
LegacyIdle == [cleaned |-> <<>>, occurrenceMap |-> EmptyMap, result |-> <<>>, duplicates |-> <<>>]

\* no run of main: the functions are called as a library
MainIdle ==
    /\ csvRows = NoFile
    /\ entry = "library"
    /\ exitCode = "none"
    /\ reports = <<>>
    /\ legacy = LegacyIdle

BatchIdle ==
    /\ MainIdle
    /\ batchSize = 1
    /\ i = 0
    /\ tasks = <<>>
    /\ variations = <<>>
    /\ issued = EmptyMap
    /\ settled = EmptyMap
    /\ reordered = FALSE
    /\ files = EmptyMap

SanIdle ==
    /\ sanInput = Undefined
    /\ passes = <<>>

GenIdle ==
    /\ SanIdle
    /\ fieldName = <<>>
    /\ promptType = Undefined
    /\ promptFunction = "none"
    /\ response = Undefined
    /\ outcome = Pending

InitClassify ==
    /\ DetIdle
    /\ SanIdle
    /\ duplicates = <<>>
    /\ fieldName \in FieldNames
    /\ promptType = Undefined
    /\ promptFunction = "none"
    /\ response = Undefined
    /\ outcome = Pending
    /\ BatchIdle
    /\ pc = "generate"

InitGen ==
    /\ DetIdle
    /\ SanIdle
    /\ duplicates = <<>>
    /\ fieldName \in GenFieldNames
    /\ promptType = Undefined
    /\ promptFunction = "none"
    /\ response = Undefined
    /\ outcome = Pending
    /\ BatchIdle
    /\ pc = "generate"

\* generateVariation up to the chat call: the prompt function and type are
\* selected and the request is sent
SelectPrompt ==
    /\ pc = "generate"
    /\ promptFunction' = getPromptFunction(fieldName)
    /\ promptType' = getPromptType(fieldName)
    /\ pc' = "chat"
    /\ UNCHANGED <<detVars, duplicates, fieldName, response, outcome, batchVars, files, sanVars, mainVars, legacy, reports, exitCode>>

\* the chat call resolves with a response
ChatResolves ==
    /\ pc = "chat"
    /\ \E content \in Responses :
           /\ response' = content
           /\ outcome' = Settle(content)
    /\ pc' = "settled"
    /\ UNCHANGED <<detVars, duplicates, fieldName, promptType, promptFunction, batchVars, files, sanVars, mainVars, legacy, reports, exitCode>>

\* the chat call rejects: generateVariation rejects with the same error
ChatRejects ==
    /\ pc = "chat"
    /\ outcome' = Thrown
    /\ pc' = "settled"
    /\ UNCHANGED <<detVars, duplicates, fieldName, promptType, promptFunction, response, batchVars, files, sanVars, mainVars, legacy, reports, exitCode>>

NextClassify == SelectPrompt

SpecClassify == InitClassify /\ [][NextClassify]_vars

NextGen == SelectPrompt \/ ChatResolves \/ ChatRejects

SpecGen == InitGen /\ [][NextGen]_vars

----------------------------------------------------------------------------
(* findDuplicatesInData, one action per statement *)

InitDet ==
    /\ data \in Datasets(MaxRows)
    /\ excludedFields \in ExcludedChoices
    /\ cleaned = <<>>
    /\ occurrenceMap = EmptyMap
    /\ result = <<>>
    /\ duplicates = <<>>
    /\ fieldLists = <<>>
    /\ GenIdle
    /\ BatchIdle
    /\ pc = "clean"

\* an error leaves the function at the bottom of the stack: main catches
\* it and exits with status 1, a library call throws to its caller
Throw ==
    IF entry = "main"
    THEN pc' = "exited" /\ exitCode' = "1"
    ELSE pc' = "thrown" /\ exitCode' = exitCode

Clean ==
    /\ pc = "clean"
    /\ IF cleanCSVDataThrows(data, excludedFields)
       THEN Throw /\ cleaned' = cleaned
       ELSE /\ cleaned' = cleanCSVData(data, excludedFields)
            /\ pc' = "count"
            /\ exitCode' = exitCode
    /\ UNCHANGED <<data, excludedFields, occurrenceMap, result, duplicates, fieldLists, genVars, batchVars, files, sanVars, mainVars, legacy, reports>>

Count ==
    /\ pc = "count"
    /\ IF countOccurrencesThrows(cleaned, excludedFields)
       THEN Throw /\ occurrenceMap' = occurrenceMap
       ELSE /\ occurrenceMap' = countOccurrences(cleaned, excludedFields)
            /\ pc' = "find"
            /\ exitCode' = exitCode
    /\ UNCHANGED <<data, excludedFields, cleaned, result, duplicates, fieldLists, genVars, batchVars, files, sanVars, mainVars, legacy, reports>>

Find ==
    /\ pc = "find"
    /\ LET r == findDuplicates(cleaned, occurrenceMap, excludedFields)
       IN  /\ result' = r.result
           /\ duplicates' = r.duplicates
           /\ fieldLists' = r.lists
    /\ pc' = "detected"
    /\ UNCHANGED <<data, excludedFields, cleaned, occurrenceMap, genVars, batchVars, files, sanVars, mainVars, legacy, reports, exitCode>>

NextDet == Clean \/ Count \/ Find

SpecDet == InitDet /\ [][NextDet]_vars

----------------------------------------------------------------------------
(* Vocabulary of the detector claims, stated on rows and field values      *)
(* without the composite key                                               *)

Range(seq) == { seq[j] : j \in 1..Len(seq) }

ComparedColumns == Range(FieldOrder) \ excludedFields

\* row holds the FieldValue (f, v): f is compared and v is its non-empty trimmed value
HoldsValue(row, f, v) == f \in ComparedColumns /\ v # <<>> /\ Trim(row[f]) = v

\* positions of the cleaned rows holding the FieldValue (f, v)
RowsHolding(f, v) == { n \in 1..Len(cleaned) : HoldsValue(cleaned[n], f, v) }

FieldValuesOf(d) ==
    { <<f, Trim(d[n][f])>> : n \in 1..Len(d), f \in ComparedColumns } \ { <<f, <<>>>> : f \in ComparedColumns }

\* f is in the DuplicateFields sequence of the n-th cleaned row
Flagged(n, f) == f \in Range(fieldLists[n])

\* C1: every FieldValue held by N >= 2 cleaned rows is left out of
\* DuplicateFields for the first of those rows and is in DuplicateFields of
\* each of the other N-1
C1_FirstSeenWins ==
    pc = "detected" =>
        \A fv \in FieldValuesOf(cleaned) :
            LET S == RowsHolding(fv[1], fv[2])
            IN  Cardinality(S) >= 2 =>
                    \A n \in S : Flagged(n, fv[1]) <=> (\E m \in S : m < n)

\* C2: a field is in a row's DuplicateFields only if it is not excluded, its
\* trimmed value is non-empty and at least two cleaned rows hold that field
\* with that trimmed value; only such FieldValues are counted
C2_NoFalsePositives ==
    pc = "detected" =>
        /\ \A n \in 1..Len(cleaned) : \A f \in Range(FieldOrder) :
               Flagged(n, f) =>
                   /\ f \notin excludedFields
                   /\ Trim(cleaned[n][f]) # <<>>
                   /\ Cardinality(RowsHolding(f, Trim(cleaned[n][f]))) >= 2
        /\ \A key \in DOMAIN occurrenceMap :
               \E fv \in FieldValuesOf(cleaned) : key = MapKey(fv[1], fv[2])

\* C3: a field of a row is flagged only if an earlier cleaned row holds the
\* same field with the same trimmed value, and the count kept for a
\* FieldValue is the number of rows holding exactly that field and value
C3_FieldValueEquality ==
    pc = "detected" =>
        /\ \A n \in 1..Len(cleaned) : \A f \in Range(FieldOrder) :
               Flagged(n, f) =>
                   \E m \in 1..(n - 1) : HoldsValue(cleaned[m], f, Trim(cleaned[n][f]))
        /\ \A fv \in FieldValuesOf(cleaned) :
               MapGet(occurrenceMap, MapKey(fv[1], fv[2])) = Cardinality(RowsHolding(fv[1], fv[2]))

\* the rows Red Shoe / Red Shoe / Blue Hat of the README scenario: one
\* compared column whose value repeats in the second row, ID excluded
ScenarioData ==
    << MkRow(1, <<"v">>, <<>>), MkRow(2, <<"v">>, <<>>), MkRow(3, <<"x", ":", "v">>, <<>>) >>

\* an annotated or duplicate row without the properties the detector added
SourceOf(row) == [k \in Range(FieldOrder) |-> row[k]]

\* positions of the cleaned rows whose DuplicateFields is non-empty, ascending
RECURSIVE FlaggedPositions(_)
FlaggedPositions(n) ==
    IF n = 0 THEN <<>>
    ELSE IF fieldLists[n] # <<>> THEN Append(FlaggedPositions(n - 1), n)
    ELSE FlaggedPositions(n - 1)

\* C4: one annotated row per cleaned row in the original order, duplicate
\* 'true' exactly for a non-empty DuplicateFields and 'false' with an empty
\* duplicateFields otherwise; the duplicates subset is the rows annotated
\* 'true', in order, with the same DuplicateFields; the README scenario
\* gives false / true with Title / false
C4_AnnotatedAndSubset ==
    pc = "detected" =>
        /\ Len(result) = Len(cleaned)
        /\ \A n \in 1..Len(cleaned) :
               /\ SourceOf(result[n]) = cleaned[n]
               /\ result[n][KeyDuplicate] = (IF fieldLists[n] # <<>> THEN StrTrue ELSE StrFalse)
               /\ result[n][KeyDuplicateFields] = Join(fieldLists[n], <<",">>)
               /\ fieldLists[n] = <<>> => result[n][KeyDuplicateFields] = <<>>
        /\ LET pos == FlaggedPositions(Len(cleaned))
           IN  /\ Len(duplicates) = Len(pos)
               /\ \A k \in 1..Len(pos) :
                      /\ result[pos[k]][KeyDuplicate] = StrTrue
                      /\ SourceOf(duplicates[k]) = cleaned[pos[k]]
                      /\ duplicates[k][KeyDuplicateFields] = result[pos[k]][KeyDuplicateFields]
               /\ \A n \in 1..Len(result) :
                      result[n][KeyDuplicate] = StrTrue => \E k \in 1..Len(pos) : pos[k] = n
        /\ (data = ScenarioData /\ ID \in excludedFields /\ Title \notin excludedFields) =>
               /\ fieldLists = << <<>>, <<Title>>, <<>> >>
               /\ Len(duplicates) = 1 /\ duplicates[1][ID] = IdOf(2)

\* the README scenario has been annotated
C4_Witness ==
    /\ pc = "detected"
    /\ data = ScenarioData
    /\ ID \in excludedFields /\ Title \notin excludedFields
    /\ Len(duplicates) = 1
    /\ result[2][KeyDuplicate] = StrTrue

----------------------------------------------------------------------------
(* Claims on lib/ai.js *)

\* name contains word when letter case is ignored (word given in lower case)
ContainsIgnoringCase(name, word) ==
    \E n \in 1..(Len(name) - Len(word) + 1) :
        \A j \in 1..Len(word) : ToLowerCase(<<name[n + j - 1]>>) = <<word[j]>>

\* the category the precedence rule assigns to a field name
CategoryOf(name) ==
    LET title == ContainsIgnoringCase(name, <<"t", "i", "t", "l", "e">>)
        description == ContainsIgnoringCase(name, <<"d", "e", "s", "c", "r", "i", "p", "t", "i", "o", "n">>)
        html == ContainsIgnoringCase(name, <<"h", "t", "m", "l">>)
    IN  IF title THEN "Title"
        ELSE IF description /\ ~html THEN "Description"
        ELSE IF html THEN "Html"
        ELSE "General"

TypeOfCategory(c) ==
    CASE c = "Title" -> PROMPT_TYPES.TITLE
      [] c = "Description" -> PROMPT_TYPES.DESCRIPTION
      [] c = "Html" -> PROMPT_TYPES.HTML
      [] c = "General" -> PROMPT_TYPES.GENERAL

TemplateOfCategory(c) ==
    CASE c = "Title" -> "getTitlePrompt"
      [] c = "Description" -> "getDescriptionPrompt"
      [] c = "Html" -> "getBodyPrompt"
      [] c = "General" -> "getGeneralPrompt"

\* C9: getPromptType returns Title for a name containing 'title', else
\* Description for one containing 'description' and not 'html', else Html for
\* one containing 'html', else General, ignoring case; the four named
\* examples get Html, Title, Description and General; getPromptFunction
\* selects the template of the same category
C9_ClassificationPrecedence ==
    pc = "chat" =>
        /\ promptType = TypeOfCategory(CategoryOf(fieldName))
        /\ promptFunction = TemplateOfCategory(CategoryOf(fieldName))
        /\ fieldName = Join(<<WordBody, WordHTML, WordDescription>>, <<" ">>) =>
               promptType = PROMPT_TYPES.HTML /\ promptFunction = "getBodyPrompt"
        /\ fieldName = Join(<<WordSEO, WordTitle>>, <<" ">>) =>
               promptType = PROMPT_TYPES.TITLE /\ promptFunction = "getTitlePrompt"
        /\ fieldName = Join(<<WordMeta, WordDescription>>, <<" ">>) =>
               promptType = PROMPT_TYPES.DESCRIPTION /\ promptFunction = "getDescriptionPrompt"
        /\ fieldName = Join(<<WordRandom, WordField>>, <<" ">>) =>
               promptType = PROMPT_TYPES.GENERAL /\ promptFunction = "getGeneralPrompt"

\* 'Body HTML Description' has been classified, as Html
C9_Witness ==
    /\ pc = "chat"
    /\ fieldName = Join(<<WordBody, WordHTML, WordDescription>>, <<" ">>)
    /\ promptType = PROMPT_TYPES.HTML

\* C10 as stated: a response whose content starts with the triple quote makes
\* generateVariation fail without a value, every other response makes it
\* return cleanVariation of the response content
C10_FailFastOnContent ==
    (pc = "settled" /\ response # Undefined) =>
        IF StartsWith(response, TripleQuote)
        THEN outcome.kind = "thrown" /\ outcome.value = Undefined
        ELSE outcome = Returned(cleanVariation(response))

\* C10 amended: a response whose content, once trimmed, starts with the
\* triple quote makes generateVariation fail without a value, every other
\* response makes it return cleanVariation of the trimmed content
C10_FailFastOnTrimmed ==
    (pc = "settled" /\ response # Undefined) =>
        IF StartsWith(Trim(response), TripleQuote)
        THEN outcome.kind = "thrown" /\ outcome.value = Undefined
        ELSE outcome = Returned(cleanVariation(Trim(response)))

\* a response with white space before the triple quote has been refused
C10_Witness ==
    /\ pc = "settled"
    /\ response = <<" ">> \o TripleQuote \o <<"y">>
    /\ outcome.kind = "thrown"

----------------------------------------------------------------------------
(* lib/batch.js *)

\* String.prototype.split on a one-character separator
RECURSIVE Split(_, _)
Split(str, sep) ==
    IF IndexOf(str, sep) = -1 THEN << str >>
    ELSE << SubSeq(str, 1, IndexOf(str, sep)) >>
             \o Split(SubSeq(str, IndexOf(str, sep) + 2, Len(str)), sep)

\* the duplicates argument when the caller passes none
NoList == << Undefined >>

\* reading a property: undefined when the object has no such key
Prop(obj, k) == IF k \in DOMAIN obj THEN obj[k] ELSE Undefined

\* the truthiness of a string or undefined
Truthy(v) == v # Undefined /\ v # <<>>

\* the property name `original_${field}`
OriginalKey(field) == <<"o", "r", "i", "g", "i", "n", "a", "l", "_">> \o field

\* the catch block of processBatch left out: the error rejects the row's promise
KeepOriginalUncaught(task) == [task EXCEPT !.state = "rejected"]

\* the catch block of processBatch: both properties get the original value
KeepOriginal(task) ==
    LET field == task.fields[task.pos]
        originalValue == Prop(task.row, field)
    IN  [task EXCEPT !.newRow = Spread(Spread(@, field, originalValue),
                                       OriginalKey(field), originalValue)]

\* the statements after the await writing the variation into the input row
\* as well: row[field] = variation
KeepVariationInPlace(task, variation) ==
    LET field == task.fields[task.pos]
        originalValue == Prop(task.row, field)
    IN  [task EXCEPT !.row = Spread(@, field, variation),
                     !.newRow = Spread(Spread(@, field, variation),
                                       OriginalKey(field), originalValue)]

\* the statements after the await in the try block
KeepVariation(task, variation) ==
    LET field == task.fields[task.pos]
        originalValue == Prop(task.row, field)
    IN  [task EXCEPT !.newRow = Spread(Spread(@, field, variation),
                                       OriginalKey(field), originalValue)]

\* the for loop of a row callback from position task.pos on, up to its next
\* suspension: generateVariation throws before the chat call when the text
\* is not a string (text.substring), else the chat call is sent and awaited
RECURSIVE RunRow(_)
RunRow(task) ==
    IF task.state = "rejected" THEN task
    ELSE IF task.pos > Len(task.fields) THEN [task EXCEPT !.state = "done"]
    ELSE IF Prop(task.row, task.fields[task.pos]) = Undefined
         THEN RunRow([KeepOriginal(task) EXCEPT !.pos = @ + 1])
         ELSE [task EXCEPT !.state = "chat"]

\* the for loop of a row callback walking the split fields from the last one
StartRowReversed(row) ==
    LET fs == IF Truthy(Prop(row, KeyDuplicateFields))
              THEN Split(Prop(row, KeyDuplicateFields), <<",">>)
              ELSE <<>>
    IN  RunRow([row |-> row,
                fields |-> [p \in 1..Len(fs) |-> fs[Len(fs) + 1 - p]],
                pos |-> 1,
                newRow |-> (ID :> Prop(row, ID)) @@ (Handle :> Prop(row, Handle))
                             @@ (Command :> Prop(row, Command)) @@ (KeyDuplicate :> StrTrue)
                             @@ (KeyDuplicateFields :> Prop(row, KeyDuplicateFields)),
                state |-> "start"])

\* a row callback of batch.map from its start to its first suspension
StartRow(row) ==
    RunRow([row |-> row,
            fields |-> IF Truthy(Prop(row, KeyDuplicateFields))
                       THEN Split(Prop(row, KeyDuplicateFields), <<",">>)
                       ELSE <<>>,
            pos |-> 1,
            newRow |-> (ID :> Prop(row, ID)) @@ (Handle :> Prop(row, Handle))
                         @@ (Command :> Prop(row, Command)) @@ (KeyDuplicate :> StrTrue)
                         @@ (KeyDuplicateFields :> Prop(row, KeyDuplicateFields)),
            state |-> "start"])

\* duplicates.slice(from): the rest of the list, whatever the batch size
SliceToEnd(list, from, size) == SubSeq(list, from + 1, Len(list))

\* duplicates.slice(from, from + size), from 0-based
Slice(list, from, size) ==
    SubSeq(list, from + 1, IF from + size > Len(list) THEN Len(list) ELSE from + size)

\* batch.map replaced by a loop that awaits each row: only the first row
\* callback has run when processBatch first suspends
StartBatchSerial(batch) ==
    [k \in 1..Len(batch) |->
        IF k = 1 THEN StartRow(batch[k]) ELSE [StartRow(batch[k]) EXCEPT !.state = "start"]]

\* processBatch up to its await: every row callback has run to its first suspension
StartBatch(batch) == [k \in 1..Len(batch) |-> StartRow(batch[k])]

\* what Promise.all(promises) resolves with: each row's newRow, in row order
CollectResults(ts) == [k \in 1..Len(ts) |-> ts[k].newRow]

\* the chat calls the tasks wait for, as (row position, field) pairs
Waiting(ts, from) ==
    { <<from + k, ts[k].fields[ts[k].pos]>> : k \in { j \in 1..Len(ts) : ts[j].state = "chat" } }

\* the fields from position from on whose generation threw before the chat
\* call, the row callback having reached task
ThrewBefore(task, from) == { task.fields[p] : p \in from..(task.pos - 1) }

\* the generations that threw while the tasks of a chunk ran to their first
\* suspension, as (row position, field) pairs
ThrewAtStart(ts, from) ==
    UNION { { <<from + k, f>> : f \in ThrewBefore(ts[k], 1) } : k \in 1..Len(ts) }

\* the outcomes after the given generations threw before their chat call
MarkThrown(outcomes, calls) ==
    [c \in (DOMAIN outcomes) \cup calls |->
        IF c \in calls THEN [kind |-> "threw", value |-> Undefined] ELSE outcomes[c]]

\* the call counts after the given calls were sent
Sent(counts, calls) ==
    [c \in (DOMAIN counts) \cup calls |-> MapGet(counts, c) + (IF c \in calls THEN 1 ELSE 0)]

----------------------------------------------------------------------------
(* Inputs of generateVariationsForDuplicates *)

\* the DuplicateFields of a row: two compared columns, the identifier column
\* when it is not excluded, a column whose name holds a comma
DuplicateFieldChoices == { << Title, TitleX >>, << ID >>, << TitleC >> }

\* a row of the duplicates subset at position n
DuplicateRow(n, fields) ==
    (ID :> IdOf(n)) @@ (Handle :> <<"h">> \o IdOf(n)) @@ (Command :> <<"M">>)
      @@ (Title :> <<" ", "v">>) @@ (TitleX :> <<"v">>) @@ (TitleC :> <<"v">>)
      @@ (KeyDuplicate :> StrTrue) @@ (KeyDuplicateFields :> Join(fields, <<",">>))

RECURSIVE DuplicateLists(_)
DuplicateLists(n) ==
    IF n = 0 THEN { <<>> }
    ELSE LET shorter == DuplicateLists(n - 1)
         IN  shorter \cup { Append(d, DuplicateRow(n, fs)) :
                               d \in { x \in shorter : Len(x) = n - 1 }, fs \in DuplicateFieldChoices }

\* contents the chat call resolves with: a quoted variation, a response
\* opening with the triple quote
BatchResponses == { <<"\"", "y", "\"">>, TripleQuote \o <<"y">> }

\* how generateVariation settles for these contents
BatchOutcomes == { Settle(content) : content \in BatchResponses }

----------------------------------------------------------------------------
(* generateVariationsForDuplicates and processBatch *)

InitBatch ==
    /\ DetIdle
    /\ GenIdle
    /\ MainIdle
    /\ duplicates \in DuplicateLists(MaxDuplicates) \cup { NoList }
    /\ batchSize \in 1..MaxBatchSize
    /\ i = 0
    /\ tasks = <<>>
    /\ variations = <<>>
    /\ issued = EmptyMap
    /\ settled = EmptyMap
    /\ reordered = FALSE
    /\ files = EmptyMap
    /\ pc = "start"

\* generateVariationsForDuplicates without its empty check: reading the
\* length of a missing list throws
StartUnchecked ==
    /\ pc \in {"start", "detected"}
    /\ IF duplicates = NoList
       THEN /\ pc' = "rejected"
            /\ UNCHANGED <<tasks, issued, settled>>
       ELSE \E started \in { StartBatch(Slice(duplicates, 0, batchSize)) } :
                /\ tasks' = started
                /\ issued' = Sent(issued, Waiting(started, 0))
                /\ settled' = MarkThrown(settled, ThrewAtStart(started, 0))
                /\ pc' = "awaitBatch"
    /\ UNCHANGED <<detVars, duplicates, genVars, batchSize, i, variations, reordered, files, sanVars, mainVars, legacy, reports, exitCode>>

\* the call of generateVariationsForDuplicates up to its first suspension:
\* the empty check, then the first processBatch call
Start ==
    /\ pc \in {"start", "detected"}
    /\ IF duplicates = NoList \/ Len(duplicates) = 0
       THEN /\ pc' = "returned"
            /\ UNCHANGED <<tasks, issued, settled>>
       ELSE \E started \in { StartBatch(Slice(duplicates, 0, batchSize)) } :
                /\ tasks' = started
                /\ issued' = Sent(issued, Waiting(started, 0))
                /\ settled' = MarkThrown(settled, ThrewAtStart(started, 0))
                /\ pc' = "awaitBatch"
    /\ UNCHANGED <<detVars, duplicates, genVars, batchSize, i, variations, reordered, files, sanVars, mainVars, legacy, reports, exitCode>>

\* the row callback k resumes with task as its state after the await
Resume(k, task, how) ==
    \E next \in { RunRow(IF t.state = "rejected" THEN t ELSE [t EXCEPT !.pos = @ + 1]) : t \in { task } } :
    LET field == tasks[k].fields[tasks[k].pos]
    IN  /\ tasks' = [tasks EXCEPT ![k] = next]
        /\ issued' = IF next.state = "chat"
                     THEN Sent(issued, { <<i + k, next.fields[next.pos]>> })
                     ELSE issued
        /\ settled' = MarkThrown(MapSet(settled, <<i + k, field>>, how),
                                  { <<i + k, f>> : f \in ThrewBefore(next, tasks[k].pos + 1) })
        /\ reordered' = (reordered \/ (next.state = "done" /\ \E j \in 1..(k - 1) : tasks[j].state = "chat"))

\* the chat call of row k of the chunk resolves: generateVariation returns
\* the cleaned variation or throws on the triple quote
CallResolves(k) ==
    /\ pc \in {"awaitBatch", "rejected"}
    /\ k \in 1..Len(tasks)
    /\ tasks[k].state = "chat"
    /\ \E r \in BatchOutcomes :
           IF r.kind = "returned"
           THEN Resume(k, KeepVariation(tasks[k], r.value), r)
           ELSE Resume(k, KeepOriginal(tasks[k]), [kind |-> "malformed", value |-> Undefined])
    /\ UNCHANGED <<detVars, duplicates, genVars, batchSize, i, variations, files, pc, sanVars, mainVars, legacy, reports, exitCode>>

\* the chat call of row k of the chunk rejects
CallRejects(k) ==
    /\ pc \in {"awaitBatch", "rejected"}
    /\ k \in 1..Len(tasks)
    /\ tasks[k].state = "chat"
    /\ Resume(k, KeepOriginal(tasks[k]), [kind |-> "rejected", value |-> Undefined])
    /\ UNCHANGED <<detVars, duplicates, genVars, batchSize, i, variations, files, pc, sanVars, mainVars, legacy, reports, exitCode>>

\* config.verbose of the logger, as configured by default
Verbose == TRUE

\* Math.round of the quotient num / den of two non-negative numbers
MathRound(num, den) == (2 * num + den) \div (2 * den)

\* log.batchProgress: nothing is printed for a non-positive count, else the
\* percentage, the counts, the divisor of the average time per item and the
\* number of remaining items
batchProgress(current, total) ==
    IF ~Verbose \/ current <= 0 \/ total <= 0 THEN <<>>
    ELSE << [progress |-> IF MathRound(current * 100, total) > 100 THEN 100
                          ELSE MathRound(current * 100, total),
             current |-> current,
             total |-> total,
             divisor |-> current,
             remainingItems |-> total - current] >>

\* the count taken from the batch size instead of the length of the slice
itemsProcessedByBatchSize == i + batchSize

\* const itemsProcessed = i + batch.length
itemsProcessed == i + Len(tasks)

\* the progress updates after the loop body reported the chunk
Reported ==
    IF itemsProcessed > 0
    THEN reports \o batchProgress(itemsProcessed, Len(duplicates))
    ELSE reports

\* the for loop of generateVariationsForDuplicates replaced by its first
\* iteration: the call returns after the first chunk
BatchSettlesOnce ==
    /\ pc = "awaitBatch"
    /\ \A k \in 1..Len(tasks) : tasks[k].state = "done"
    /\ exitCode' = exitCode
    /\ variations' = variations \o CollectResults(tasks)
    /\ i' = i + batchSize
    /\ reports' = Reported
    /\ tasks' = <<>>
    /\ pc' = "returned"
    /\ UNCHANGED <<detVars, duplicates, genVars, batchSize, reordered, files, sanVars, mainVars, legacy,
                   issued, settled>>

\* Promise.all replaced by a race: the loop goes on once one row is done
BatchSettlesEarly ==
    /\ pc = "awaitBatch"
    /\ \E k \in 1..Len(tasks) : tasks[k].state = "done"
    /\ exitCode' = exitCode
    /\ variations' = variations \o CollectResults(tasks)
    /\ reports' = Reported
    /\ i' = i + batchSize
    /\ IF i + batchSize < Len(duplicates)
       THEN \E started \in { StartBatch(Slice(duplicates, i + batchSize, batchSize)) } :
                /\ tasks' = started
                /\ issued' = Sent(issued, Waiting(started, i + batchSize))
                /\ settled' = MarkThrown(settled, ThrewAtStart(started, i + batchSize))
                /\ pc' = "awaitBatch"
       ELSE /\ tasks' = <<>>
            /\ issued' = issued
            /\ settled' = settled
            /\ pc' = "returned"
    /\ UNCHANGED <<detVars, duplicates, genVars, batchSize, reordered, files, sanVars, mainVars, legacy>>

\* Promise.all settles: with a rejection as soon as one row promise rejected,
\* else with the rows' results in row order once all are done; the loop body
\* then pushes them, reports progress and starts the next chunk or returns
BatchSettles ==
    /\ pc = "awaitBatch"
    /\ \/ \E k \in 1..Len(tasks) : tasks[k].state = "rejected"
       \/ \A k \in 1..Len(tasks) : tasks[k].state = "done"
    /\ IF \E k \in 1..Len(tasks) : tasks[k].state = "rejected"
       THEN /\ IF entry = "main"
               THEN pc' = "exited" /\ exitCode' = "1"
               ELSE pc' = "rejected" /\ exitCode' = exitCode
            /\ UNCHANGED <<tasks, variations, i, issued, settled, reports>>
       ELSE /\ exitCode' = exitCode
            /\ variations' = variations \o CollectResults(tasks)
            /\ reports' = Reported
            /\ i' = i + batchSize
            /\ IF i + batchSize < Len(duplicates)
               THEN \E started \in { StartBatch(Slice(duplicates, i + batchSize, batchSize)) } :
                        /\ tasks' = started
                        /\ issued' = Sent(issued, Waiting(started, i + batchSize))
                        /\ settled' = MarkThrown(settled, ThrewAtStart(started, i + batchSize))
                        /\ pc' = "awaitBatch"
               ELSE /\ tasks' = <<>>
                    /\ issued' = issued
                    /\ settled' = settled
                    /\ pc' = "returned"
    /\ UNCHANGED <<detVars, duplicates, genVars, batchSize, reordered, files, sanVars, mainVars, legacy>>

NextBatch ==
    \/ Start
    \/ \E k \in 1..MaxBatchSize : CallResolves(k)
    \/ \E k \in 1..MaxBatchSize : CallRejects(k)
    \/ BatchSettles

SpecBatch == InitBatch /\ [][NextBatch]_vars

----------------------------------------------------------------------------
(* Claims on lib/batch.js *)

\* the DuplicateFields sequences the input rows were built from
FieldsOfRow(n) == CHOOSE fs \in DuplicateFieldChoices : duplicates[n] = DuplicateRow(n, fs)

\* the record of input row n: aggregated, or still being built by its task
RecordOf(n) == IF n <= Len(variations) THEN variations[n] ELSE tasks[n - i].newRow

\* C6: the returned list is as long as the duplicates list and its k-th
\* record carries the identifier of the k-th input row, for every batch size
\* and every order of completion of the chat calls
C6_OrderPreserved ==
    (pc = "returned" /\ duplicates # NoList) =>
        /\ Len(variations) = Len(duplicates)
        /\ \A k \in 1..Len(duplicates) : variations[k][ID] = duplicates[k][ID]

\* C7: a failed generation (an error before the call, a rejected call or a
\* triple-quote response) leaves the original text under the field, a
\* generation that succeeded leaves its own result, no row promise and no
\* run is rejected, and once some generation of a run has failed every
\* duplicate field of every row still has its generation settled when the
\* run returns
C7_FailureIsolation ==
    duplicates # NoList =>
        /\ pc # "rejected"
        /\ \A k \in 1..Len(tasks) : tasks[k].state # "rejected"
        /\ \A call \in DOMAIN settled :
               LET how == settled[call]
                   rec == RecordOf(call[1])
                   original == Prop(duplicates[call[1]], call[2])
               IN  /\ call[2] \in DOMAIN rec /\ OriginalKey(call[2]) \in DOMAIN rec
                   /\ rec[OriginalKey(call[2])] = original
                   /\ how.kind \in {"threw", "malformed", "rejected"} => rec[call[2]] = original
                   /\ how.kind = "returned" => rec[call[2]] = how.value /\ how.value = <<"y">>
        /\ (pc = "returned" /\ \E call \in DOMAIN settled : settled[call].kind # "returned") =>
               /\ Len(variations) = Len(duplicates)
               /\ \A n \in 1..Len(duplicates) : \A f \in Range(FieldsOfRow(n)) :
                      <<n, f>> \in DOMAIN settled

\* C8: for an empty or missing duplicates list the call returns an empty
\* list, starts no batch and sends no chat call
C8_EmptyShortCircuit ==
    (duplicates = NoList \/ Len(duplicates) = 0) =>
        /\ pc \in {"start", "returned"}
        /\ variations = <<>>
        /\ tasks = <<>>
        /\ issued = EmptyMap

\* the call has returned for an empty list
C8_Witness ==
    /\ pc = "returned"
    /\ duplicates = <<>>
    /\ variations = <<>>
    /\ issued = EmptyMap

\* the keys every VariationRecord starts with
CarriedKeys == { ID, Handle, Command, KeyDuplicate, KeyDuplicateFields }

\* C13: the record of every row, while it is built and once it is returned,
\* holds the source row's ID, Handle and Command, the flag 'true' and the
\* source row's duplicateFields, whatever the generation calls answer
C13_IdentityCarried ==
    duplicates # NoList =>
        \A n \in 1..(Len(variations) + Len(tasks)) :
            /\ RecordOf(n)[ID] = duplicates[n][ID]
            /\ RecordOf(n)[Handle] = duplicates[n][Handle]
            /\ RecordOf(n)[Command] = duplicates[n][Command]
            /\ RecordOf(n)[KeyDuplicate] = StrTrue
            /\ RecordOf(n)[KeyDuplicateFields] = duplicates[n][KeyDuplicateFields]

\* the values generateVariation can return for the chat responses
GeneratedValues == { r.value : r \in { o \in BatchOutcomes : o.kind = "returned" } }

\* C14: in a returned run the record of a row holds, for every field of the
\* row's DuplicateFields, the sanitized generated value under the field name
\* when the generation succeeded and the original value when it failed, the
\* original value under original_<field>, and no key beside these and the
\* carried ones
C14_RecordFields ==
    (pc = "returned" /\ duplicates # NoList) =>
        \A n \in 1..Len(duplicates) :
            LET rec == variations[n]
                fs == Range(FieldsOfRow(n))
            IN  /\ \A f \in fs :
                       /\ f \in DOMAIN rec /\ OriginalKey(f) \in DOMAIN rec
                       /\ rec[OriginalKey(f)] = duplicates[n][f]
                       /\ <<n, f>> \in DOMAIN settled
                       /\ IF settled[<<n, f>>].kind = "returned"
                          THEN rec[f] = settled[<<n, f>>].value /\ rec[f] \in GeneratedValues
                          ELSE rec[f] = duplicates[n][f]
                /\ DOMAIN rec \subseteq CarriedKeys \cup fs \cup { OriginalKey(f) : f \in fs }

\* the chat calls sent and not yet settled, as (row position, field) pairs
InFlight == { call \in DOMAIN issued : call \notin DOMAIN settled }

\* the number of rows of the chunk that starts at row i + 1
ChunkSize == IF Len(duplicates) - i < batchSize THEN Len(duplicates) - i ELSE batchSize

\* C16: while a chunk is awaited it is the slice of batchSize rows (fewer at
\* the end of the list) that starts at a multiple of batchSize, the output
\* holds the records of the earlier chunks only and no call of a later chunk
\* has been sent; the step that appends records to the output or sends a
\* call for a later chunk is taken only when every row of the chunk is done
\* and no call is in flight, and it appends the records of the whole chunk
C16_ChunkBarrier ==
    /\ [](pc = "awaitBatch" =>
            /\ i % batchSize = 0
            /\ i < Len(duplicates)
            /\ Len(tasks) = ChunkSize
            /\ \A k \in 1..Len(tasks) : tasks[k].row = duplicates[i + k]
            /\ Len(variations) = i
            /\ \A call \in (DOMAIN issued) \cup (DOMAIN settled) : call[1] <= i + Len(tasks)
            /\ \A call \in InFlight : call[1] > i)
    /\ [][(\/ variations' # variations
           \/ \E call \in DOMAIN issued' : call \notin DOMAIN issued /\ call[1] > i + Len(tasks))
             => /\ \A k \in 1..Len(tasks) : tasks[k].state = "done"
                /\ InFlight = {}
                /\ variations' = variations \o CollectResults(tasks)]_vars

\* the second, shorter chunk of a list of three rows is awaited
C16_Witness ==
    /\ pc = "awaitBatch"
    /\ batchSize = 2
    /\ Len(duplicates) = 3
    /\ i = 2
    /\ Len(variations) = 2
    /\ Len(tasks) = 1
    /\ InFlight # {}

\* row n of the input has a duplicate field
HasDuplicateField(n) == Truthy(Prop(duplicates[n], KeyDuplicateFields))

\* C17: in the state a chunk starts in, every row of the chunk that has a
\* duplicate field has a chat call in flight and no chat call of the chunk
\* has been answered yet; while the chunk is awaited a call has been sent
\* for every such row
C17_LaunchWithoutWaiting ==
    /\ [][(pc' = "awaitBatch" /\ (pc # "awaitBatch" \/ i' # i)) =>
             /\ \A k \in 1..Len(tasks') : HasDuplicateField(i' + k) =>
                    /\ tasks'[k].state = "chat"
                    /\ \E call \in InFlight' : call[1] = i' + k
             /\ \A call \in DOMAIN settled' : call[1] > i' => settled'[call].kind = "threw"]_vars
    /\ [](pc = "awaitBatch" =>
            \A k \in 1..Len(tasks) : HasDuplicateField(i + k) =>
                \E call \in DOMAIN issued : call[1] = i + k)

\* both rows of the first chunk have their first call in flight
C17_Witness ==
    /\ pc = "awaitBatch"
    /\ i = 0
    /\ batchSize = 2
    /\ Len(tasks) = 2
    /\ \A k \in 1..2 : tasks[k].state = "chat" /\ tasks[k].pos = 1
    /\ { call[1] : call \in InFlight } = {1, 2}
    /\ settled = EmptyMap

\* the calls of row n that are in flight
InFlightOf(n) == { call \in InFlight : call[1] = n }

C19_ConcurrencyWidth ==
    /\ Cardinality(InFlight) <= batchSize
    /\ \A call \in InFlight : pc = "awaitBatch" /\ call[1] > i /\ call[1] <= i + batchSize

\* a list longer than the batch size with batchSize calls in flight, both
\* for second fields
C19_Witness ==
    /\ pc = "awaitBatch"
    /\ batchSize = MaxBatchSize
    /\ Len(duplicates) > batchSize
    /\ Cardinality(InFlight) = batchSize
    /\ \A k \in 1..Len(tasks) : tasks[k].pos = 2

\* C20: no chat call is sent twice, every chat call is for a field of its
\* row's DuplicateFields, and when the run has returned exactly one call
\* was sent for every field of every row's DuplicateFields
C20_NoRetry ==
    duplicates # NoList =>
        /\ \A call \in DOMAIN issued :
               /\ issued[call] = 1
               /\ call[2] \in Range(FieldsOfRow(call[1]))
        /\ pc = "returned" =>
               \A n \in 1..Len(duplicates) : \A f \in Range(FieldsOfRow(n)) :
                   MapGet(issued, <<n, f>>) = 1

----------------------------------------------------------------------------
(* main: a whole run from the input file to the written files *)

\* cells as written in the file, before the parser trims them
MainTitleValues == { <<" ">>, <<"v">> }
MainTitleXValues == { <<>>, <<"v">> }

\* the rows at position n of the file: two cells after the identifier, and
\* possibly more cells than the header has columns
MainRowsAt(n) ==
    { MkRow(n, t, tx) : t \in MainTitleValues, tx \in MainTitleXValues }
        \cup { MkRow(n, <<" ">>, tx) @@ (ParsedExtra :> NonString) : tx \in MainTitleXValues }

RECURSIVE MainDatasets(_)
MainDatasets(n) ==
    IF n = 0 THEN { <<>> }
    ELSE LET shorter == MainDatasets(n - 1)
         IN  shorter \cup { Append(d, r) :
                               d \in { x \in shorter : Len(x) = n - 1 }, r \in MainRowsAt(n) }

MainExcludedChoices == { {Handle, ID, Command}, {ID, Title} }

PathFound == "found-duplicates.csv"
PathVariations == "variations-output.csv"

\* the transform option of parseCSV: every cell is trimmed
ParseRow(row) ==
    [k \in DOMAIN row |-> IF row[k] = NonString THEN NonString ELSE Trim(row[k])]

InitMain ==
    /\ csvRows \in MainDatasets(MaxMainRows) \cup { NoFile }
    /\ entry = "main"
    /\ exitCode = "none"
    /\ reports = <<>>
    /\ legacy = LegacyIdle
    /\ data = <<>>
    /\ excludedFields \in MainExcludedChoices
    /\ cleaned = <<>>
    /\ occurrenceMap = EmptyMap
    /\ result = <<>>
    /\ duplicates = <<>>
    /\ fieldLists = <<>>
    /\ GenIdle
    /\ batchSize \in 1..MaxBatchSize
    /\ i = 0
    /\ tasks = <<>>
    /\ variations = <<>>
    /\ issued = EmptyMap
    /\ settled = EmptyMap
    /\ reordered = FALSE
    /\ files = EmptyMap
    /\ pc = "parse"

\* parseCSV: readFileSync throws when the file cannot be read
Parse ==
    /\ pc = "parse"
    /\ IF csvRows = NoFile
       THEN Throw /\ data' = data
       ELSE /\ data' = [n \in 1..Len(csvRows) |-> ParseRow(csvRows[n])]
            /\ pc' = "clean"
            /\ exitCode' = exitCode
    /\ UNCHANGED <<excludedFields, cleaned, occurrenceMap, result, fieldLists, duplicates,
                   genVars, batchVars, files, sanVars, mainVars, legacy, reports>>

\* the two writeToCSV calls after the variations were generated; either
\* writeFileSync may throw
Write ==
    /\ pc = "returned"
    /\ \E failing \in { "none", PathFound, PathVariations } :
           IF failing = "none"
           THEN /\ files' = (PathFound :> result) @@ (PathVariations :> variations)
                /\ pc' = "written"
                /\ exitCode' = exitCode
           ELSE /\ files' = IF failing = PathFound THEN files ELSE (PathFound :> result)
                /\ Throw
    /\ UNCHANGED <<detVars, duplicates, genVars, batchVars, sanVars, mainVars, legacy, reports>>

NextMain ==
    \/ Parse
    \/ Clean
    \/ Count
    \/ Find
    \/ Start
    \/ \E k \in 1..MaxBatchSize : CallResolves(k)
    \/ \E k \in 1..MaxBatchSize : CallRejects(k)
    \/ BatchSettles
    \/ Write

SpecMain == InitMain /\ [][NextMain]_vars

\* every compared field of the row is empty or white space only
AllCompareFieldsEmpty(row) ==
    \A f \in (DOMAIN row) \ excludedFields : Trim(row[f]) = <<>>

\* the positions of the file's rows that are not empty
KeptPositions ==
    IF csvRows = NoFile THEN {}
    ELSE { n \in 1..Len(csvRows) : ~AllCompareFieldsEmpty(csvRows[n]) }

\* the parsed rows that are not empty, in their order
NonEmptyRows ==
    SelectSeq(data, LAMBDA row : \E n \in KeptPositions : csvRows[n][ID] = row[ID])

\* the records a run has produced so far
ProducedRecords ==
    Range(result) \cup Range(duplicates) \cup Range(variations)
        \cup { tasks[k].newRow : k \in 1..Len(tasks) }
        \cup UNION { Range(files[path]) : path \in DOMAIN files }

\* C5: cleaning drops exactly the rows whose non-excluded fields are all
\* empty or white space only and keeps every other row, and no annotated
\* row, duplicate row or VariationRecord carries the identifier of a dropped
\* row
C5_EmptyRowsDropped ==
    /\ pc \in {"count", "find", "detected", "awaitBatch", "returned", "written"}
           => cleaned = NonEmptyRows
    /\ \A n \in 1..Len(data) :
           n \notin KeptPositions =>
               \A rec \in ProducedRecords : rec[ID] # data[n][ID]
    /\ pc \in {"returned", "written"} =>
           \A n \in KeptPositions : \E rec \in Range(result) : rec[ID] = data[n][ID]

\* a run has written its files after dropping a row that holds white space
\* only beside its excluded identifier, and after generating a variation for
\* another row
C5_Witness ==
    /\ pc = "written"
    /\ Len(data) = 3
    /\ csvRows[1][Title] = <<" ">> /\ csvRows[1][TitleX] = <<>> /\ 1 \notin KeptPositions
    /\ Len(cleaned) = 2
    /\ Len(variations) = 1 /\ variations[1][ID] = IdOf(3)

\* a pending chat call completes, with a response or with an error
CallCompletes == \E k \in 1..MaxBatchSize : CallResolves(k) \/ CallRejects(k)

\* every chat call completes, and the event loop runs the continuation of
\* Promise.all and of the generation once they are ready
SpecMainFair ==
    SpecMain /\ WF_vars(CallCompletes) /\ WF_vars(BatchSettles) /\ WF_vars(Write)

\* a generation of the run has failed
GenerationFailed == \E call \in DOMAIN settled : settled[call].kind # "returned"

\* a cell of the parsed table makes cleaning or counting throw
DetectionThrows ==
    /\ csvRows # NoFile
    /\ \E n \in 1..Len(csvRows) : ParsedExtra \in DOMAIN csvRows[n]

----------------------------------------------------------------------------
(* cleanVariation called on its own *)

TextHelloWorld == <<"H", "e", "l", "l", "o", " ", "W", "o", "r", "l", "d">>
TextParagraph == <<"<", "p", ">", "H", "i", "<", "/", "p", ">">>

ExampleTripleQuoted == TripleQuote \o TextHelloWorld \o TripleQuote
ExampleFenced == Fence \o WordHtml \o <<"\n">> \o TextParagraph \o <<"\n">> \o Fence

\* a block opened by a fence of four backticks and not closed
ExampleLongFence == Fence \o << Backtick, "\n", "y" >>

SanInputs == Responses \cup { ExampleTripleQuoted, ExampleFenced, ExampleLongFence }

InitSan ==
    /\ DetIdle
    /\ duplicates = <<>>
    /\ fieldName = <<>>
    /\ promptType = Undefined
    /\ promptFunction = "none"
    /\ response = Undefined
    /\ outcome = Pending
    /\ BatchIdle
    /\ sanInput \in SanInputs
    /\ passes = <<>>
    /\ pc = "sanitize"

\* one call of cleanVariation, on the text or on the result of the call before
Sanitize ==
    /\ pc = "sanitize"
    /\ Len(passes) < MaxPasses
    /\ passes' = Append(passes, cleanVariation(IF passes = <<>> THEN sanInput
                                                ELSE passes[Len(passes)]))
    /\ UNCHANGED <<detVars, duplicates, genVars, batchVars, files, sanInput, mainVars, legacy, reports, exitCode, pc>>

NextSan == Sanitize

SpecSan == InitSan /\ [][NextSan]_vars

\* the markers the strip rules look for at the two ends of a text
EndMarkers == { <<"\"">>, <<Backtick>>, TripleQuote, Fence, CommentOpen, CommentClose }

\* no leading or trailing quote, backtick, triple quote, fence or comment
\* marker and no trailing newline
IsClean(t) ==
    /\ \A m \in EndMarkers : ~StartsWith(t, m) /\ ~EndsWith(t, m)
    /\ ~EndsWith(t, <<"\n">>)

C12_IdempotentOnClean ==
    IsClean(sanInput) => \A k \in 1..Len(passes) : passes[k] = sanInput

\* a clean text with a leading blank and an inner newline went through
\* cleanVariation twice
C12_Witness ==
    /\ sanInput = <<" ", "\n", "y">>
    /\ IsClean(sanInput)
    /\ Len(passes) = 2
    /\ passes[2] = sanInput

----------------------------------------------------------------------------
(* generateVariationsForDuplicates run to its end *)

\* every chat call completes, and the event loop runs the continuation of
\* Promise.all once it is ready
SpecBatchFair ==
    SpecBatch /\ WF_vars(CallCompletes) /\ WF_vars(BatchSettles)

\* C21: when every chat call completes, a call of
\* generateVariationsForDuplicates that was made returns; it returns only
\* after the last chunk, with as many records as input rows, and each step
\* that appends records appends one record per row of the awaited chunk, in
\* row order, built by that row's callback
C21_Termination ==
    /\ (pc # "start" ~> pc = "returned")
    /\ []((pc = "returned" /\ duplicates # NoList) =>
            /\ Len(variations) = Len(duplicates)
            /\ i >= Len(duplicates)
            /\ tasks = <<>>
            /\ InFlight = {})
    /\ [][variations' # variations =>
             /\ Len(variations') = Len(variations) + Len(tasks)
             /\ \A k \in 1..Len(tasks) :
                    /\ tasks[k].row = duplicates[Len(variations) + k]
                    /\ variations'[Len(variations) + k] = tasks[k].newRow]_vars

\* a run over three rows in two chunks has returned after a rejected call
C21_Witness ==
    /\ pc = "returned"
    /\ duplicates # NoList
    /\ Len(duplicates) = MaxDuplicates
    /\ batchSize = 2
    /\ i = 4
    /\ Len(variations) = MaxDuplicates
    /\ \E call \in DOMAIN settled : settled[call].kind = "rejected"

----------------------------------------------------------------------------
(* generateVariationsForDuplicates with a chat call that may never complete *)

\* a pending chat call of a row other than the first of its chunk completes
OtherCallCompletes == \E k \in 2..MaxBatchSize : CallResolves(k) \/ CallRejects(k)

\* the chat calls of the first row of a chunk may stay pending for ever; every
\* other chat call completes
SpecBatchHang ==
    SpecBatch /\ WF_vars(OtherCallCompletes) /\ WF_vars(BatchSettles)

\* C22: as long as a chat call is in flight the run has not returned and is
\* awaiting the chunk of the call's row, no call for a row of a later chunk
\* has been sent, and the step that leaves the call in flight changes neither
\* the chunk nor the output; when the calls of the first row of a chunk stay
\* pending, every other row of the chunk still gets done
C22_NoCancellation ==
    /\ [](\A call \in InFlight :
            /\ pc = "awaitBatch"
            /\ call[1] > i /\ call[1] <= i + batchSize
            /\ \A other \in DOMAIN issued : other[1] <= i + batchSize)
    /\ [][\A call \in InFlight : call \in InFlight' =>
              pc' = "awaitBatch" /\ i' = i /\ variations' = variations]_vars
    /\ \A from \in 0..MaxDuplicates :
           (pc = "awaitBatch" /\ i = from) ~>
               \/ i # from
               \/ pc # "awaitBatch"
               \/ \A k \in 2..Len(tasks) : tasks[k].state = "done"

\* the first call of row 1 is still pending while row 2 of the same chunk
\* has gone through both of its fields, and no call was sent for row 3
C22_Witness ==
    /\ pc = "awaitBatch"
    /\ batchSize = 2
    /\ Len(duplicates) = 3
    /\ i = 0
    /\ tasks[1].state = "chat" /\ tasks[1].pos = 1
    /\ tasks[2].state = "done" /\ Len(tasks[2].fields) = 2
    /\ \A call \in DOMAIN issued : call[1] # 3

----------------------------------------------------------------------------
(* Claims on the progress updates *)

\* the smaller of two numbers
Smaller(a, b) == IF a < b THEN a ELSE b

\* p is the whole number nearest to 100 * part / whole, the upper one of two
IsRoundedPercent(p, part, whole) ==
    /\ 2 * (100 * part - p * whole) <= whole
    /\ 2 * (p * whole - 100 * part) < whole

\* C23: one update is printed per completed chunk; the k-th gives as items
\* processed the smaller of k * batchSize and the total, which is the number
\* of records aggregated at that moment, as percentage the rounded share
\* capped at 100, as remaining count the total less the processed count,
\* never negative; the average divides by a positive count; the last update
\* of a returned run gives the total and 0 remaining
C23_ProgressAccounting ==
    duplicates # NoList =>
        /\ Len(reports) * batchSize >= Len(variations)
        /\ Len(variations) > (Len(reports) - 1) * batchSize
        /\ Len(reports) = 0 <=> Len(variations) = 0
        /\ \A k \in 1..Len(reports) :
               /\ reports[k].total = Len(duplicates)
               /\ reports[k].current = Smaller(k * batchSize, Len(duplicates))
               /\ IsRoundedPercent(reports[k].progress, reports[k].current, reports[k].total)
               /\ reports[k].progress <= 100
               /\ reports[k].remainingItems = Len(duplicates) - reports[k].current
               /\ reports[k].remainingItems >= 0
               /\ reports[k].divisor > 0
        /\ Len(reports) > 0 => reports[Len(reports)].current = Len(variations)
        /\ (pc \in {"returned", "written"} /\ Len(duplicates) > 0) =>
               /\ Len(reports) > 0
               /\ reports[Len(reports)].current = Len(duplicates)
               /\ reports[Len(reports)].remainingItems = 0
               /\ reports[Len(reports)].progress = 100

\* three rows in chunks of two: 67% after the first chunk, 100% after the
\* shorter second one
C23_Witness ==
    /\ pc = "returned"
    /\ batchSize = 2
    /\ Len(reports) = 2
    /\ reports[1] = [progress |-> 67, current |-> 2, total |-> 3, divisor |-> 2, remainingItems |-> 1]
    /\ reports[2] = [progress |-> 100, current |-> 3, total |-> 3, divisor |-> 3, remainingItems |-> 0]

----------------------------------------------------------------------------
(* Claims on single rules of cleanVariation *)

\* the 0-based positions of the fence markers of c that lie wholly behind
\* the opening marker
ClosingFences(c) == { p \in Occurrences(c, Fence) : p >= Len(Fence) }

\* C24: for a text that reaches the code block rule starting with a fence and
\* holding a line break, the rule yields, trimmed, the text between the first
\* line break and the last fence behind the opening one when there is such a
\* fence behind the line break, and the text behind the first line break when
\* there is no fence behind the opening one; the later rules work on that
C24_FencedRule ==
    passes # <<>> =>
        LET c == BeforeCodeBlock(sanInput)
            lineBreak == IndexOf(c, <<"\n">>)
        IN  (StartsWith(c, Fence) /\ lineBreak # -1) =>
                /\ (ClosingFences(c) # {} /\ Greatest(ClosingFences(c)) > lineBreak) =>
                       StripCodeBlock(c) = Trim(SubSeq(c, lineBreak + 2, Greatest(ClosingFences(c))))
                /\ ClosingFences(c) = {} =>
                       StripCodeBlock(c) = Trim(SubSeq(c, lineBreak + 2, Len(c)))
                /\ passes[1] = StripTrailingNewlines(StripTrailingComment(StripLeadingComment(
                                   StripTrailingQuote(StripLeadingQuote(StripCodeBlock(c))))))

\* C25: for a text that reaches the leading comment rule starting with the
\* comment opener, the rule removes the prefix that ends with the first
\* comment closer, and nothing else but white space at the two ends
C25_LeadingCommentRule ==
    passes # <<>> =>
        LET c == BeforeLeadingComment(sanInput)
            closer == IndexOf(c, CommentClose)
        IN  StartsWith(c, CommentOpen) =>
                /\ closer # -1
                /\ StripLeadingComment(c) = Trim(SubSeq(c, closer + Len(CommentClose) + 1, Len(c)))
                /\ passes[1] = StripTrailingNewlines(StripTrailingComment(StripLeadingComment(c)))

\* C26: for a text that reaches the trailing comment rule ending with the
\* comment closer, the rule removes the suffix that starts at the last
\* comment opener, and nothing else but white space at the two ends
C26_TrailingCommentRule ==
    passes # <<>> =>
        LET c == BeforeTrailingComment(sanInput)
            opener == LastIndexOf(c, CommentOpen)
        IN  EndsWith(c, CommentClose) =>
                /\ opener # -1
                /\ StripTrailingComment(c) = Trim(SubSeq(c, 1, opener))
                /\ passes[1] = StripTrailingNewlines(StripTrailingComment(c))

----------------------------------------------------------------------------
(* Detection followed by generation, on a table with a comma in a column name *)

\* the row at position n with the columns ID, T and 'T,c'
TripRowsAt(n) ==
    { (ID :> IdOf(n)) @@ (Title :> t) @@ (TitleC :> tc) :
          t \in { <<"v">>, <<"w">> }, tc \in { <<>>, <<"v">> } }

RECURSIVE TripDatasets(_)
TripDatasets(n) ==
    IF n = 0 THEN { <<>> }
    ELSE LET shorter == TripDatasets(n - 1)
         IN  shorter \cup { Append(d, r) : d \in { x \in shorter : Len(x) = n - 1 }, r \in TripRowsAt(n) }

\* findDuplicatesInData on such a table, its duplicates then handed to
\* generateVariationsForDuplicates
InitTrip ==
    /\ data \in TripDatasets(MaxMainRows)
    /\ excludedFields = {Handle, ID, Command}
    /\ cleaned = <<>>
    /\ occurrenceMap = EmptyMap
    /\ result = <<>>
    /\ duplicates = <<>>
    /\ fieldLists = <<>>
    /\ GenIdle
    /\ MainIdle
    /\ batchSize \in 1..MaxBatchSize
    /\ i = 0
    /\ tasks = <<>>
    /\ variations = <<>>
    /\ issued = EmptyMap
    /\ settled = EmptyMap
    /\ reordered = FALSE
    /\ files = EmptyMap
    /\ pc = "clean"

NextTrip ==
    \/ Clean
    \/ Count
    \/ Find
    \/ Start
    \/ \E k \in 1..MaxBatchSize : CallResolves(k)
    \/ \E k \in 1..MaxBatchSize : CallRejects(k)
    \/ BatchSettles

SpecTrip == InitTrip /\ [][NextTrip]_vars

\* the detector's DuplicateFields sequences of the duplicate rows, in order
DetectedFields == SelectSeq(fieldLists, LAMBDA list : list # <<>>)

\* C27: the serialized duplicateFields of every duplicate row, split on ',',
\* is the detector's DuplicateFields sequence of the row; the fields a row
\* callback iterates over are that sequence, and each of them is a column
\* of the row with a value
C27_RoundTrip ==
    /\ Len(duplicates) = Len(DetectedFields)
    /\ \A m \in 1..Len(duplicates) :
           Split(duplicates[m][KeyDuplicateFields], <<",">>) = DetectedFields[m]
    /\ \A k \in 1..Len(tasks) :
           /\ tasks[k].fields = DetectedFields[i + k]
           /\ \A p \in 1..Len(tasks[k].fields) :
                  Prop(duplicates[i + k], tasks[k].fields[p]) # Undefined

----------------------------------------------------------------------------
(* Claims on the inputs of the steps *)

\* row with the two annotation keys taken away
WithoutAnnotation(row) == [k \in (DOMAIN row) \ { KeyDuplicate, KeyDuplicateFields } |-> row[k]]

\* C28: the parsed rows change in no step after parsing, the cleaned rows in
\* no step after cleaning, the occurrence map in no step after counting, and
\* the annotated rows and the duplicates in no step after classification;
\* the cleaned rows carry no annotation and the annotated rows are the
\* cleaned rows with the two annotation keys added; the row a row callback
\* of processBatch holds is still the duplicate row it was started with
C28_InputsUnchanged ==
    /\ [][pc # "parse" => data' = data]_vars
    /\ [][pc # "clean" => cleaned' = cleaned]_vars
    /\ [][pc # "count" => occurrenceMap' = occurrenceMap]_vars
    /\ [][pc # "find" => (result' = result /\ duplicates' = duplicates)]_vars
    /\ [](\A n \in 1..Len(cleaned) :
            /\ DOMAIN cleaned[n] \cap { KeyDuplicate, KeyDuplicateFields } = {}
            /\ \E m \in 1..Len(data) : data[m] = cleaned[n])
    /\ [](\A n \in 1..Len(result) :
            /\ WithoutAnnotation(result[n]) = cleaned[n]
            /\ { KeyDuplicate, KeyDuplicateFields } \subseteq DOMAIN result[n])
    /\ [](\A k \in 1..Len(tasks) : tasks[k].row = duplicates[i + k])
    /\ [](\A m \in 1..Len(duplicates) :
            \E n \in 1..Len(cleaned) :
                [k \in (DOMAIN duplicates[m]) \ { KeyDuplicateFields } |-> duplicates[m][k]] = cleaned[n])

\* a run of main has written a generated value, and its parsed, cleaned and
\* duplicate rows are as they were
C28_Witness ==
    /\ pc = "written"
    /\ Len(cleaned) = 3
    /\ Len(duplicates) = 2
    /\ Len(variations) = 2
    /\ \A call \in DOMAIN settled : settled[call].kind = "returned"
    /\ variations[1][Title] = <<"y">>
    /\ duplicates[1][Title] = <<"v">>
    /\ cleaned[2][Title] = <<"v">>

----------------------------------------------------------------------------
(* findDuplicatesInData on rows that hold values that are no strings *)

\* the row at position n, its column T holding a text, the empty string, an
\* array or null
MalformedRowsAt(n) ==
    { (ID :> IdOf(n)) @@ (Title :> t) : t \in { <<"v">>, <<>>, NonString, Null } }

RECURSIVE MalformedDatasets(_)
MalformedDatasets(n) ==
    IF n = 0 THEN { <<>> }
    ELSE LET shorter == MalformedDatasets(n - 1)
         IN  shorter \cup { Append(d, r) : d \in { x \in shorter : Len(x) = n - 1 },
                                           r \in MalformedRowsAt(n) }

InitMalformed ==
    /\ data \in MalformedDatasets(MaxRows)
    /\ excludedFields \in ExcludedChoices
    /\ cleaned = <<>>
    /\ occurrenceMap = EmptyMap
    /\ result = <<>>
    /\ duplicates = <<>>
    /\ fieldLists = <<>>
    /\ GenIdle
    /\ BatchIdle
    /\ pc = "clean"

SpecMalformed == InitMalformed /\ [][NextDet]_vars

\* some row holds a value that is no string under a field that is not excluded
HasNonStringValue ==
    \E n \in 1..Len(data) : \E k \in (DOMAIN data[n]) \ excludedFields :
        data[n][k] \in { NonString, Null }

\* C29: on a dataset with a value that is no string under a field that is
\* not excluded, detection ends with an error thrown to the caller: it never
\* gets to the classification and produces no annotated row and no duplicate
C29_FailFast ==
    HasNonStringValue =>
        /\ pc \in {"clean", "count", "thrown"}
        /\ result = <<>>
        /\ duplicates = <<>>

----------------------------------------------------------------------------
(* duplicate-lines.js: detection on the one column ROW_NAME *)

\* getFieldValue: the primary column, else the alternative one, else null
getFieldValue(row) ==
    IF Truthy(Prop(row, ROW_NAME)) /\ Trim(row[ROW_NAME]) # <<>> THEN row[ROW_NAME]
    ELSE IF Truthy(Prop(row, ROW_NAME_ALT)) /\ Trim(row[ROW_NAME_ALT]) # <<>>
         THEN row[ROW_NAME_ALT]
         ELSE Null

cleanData(d) ==
    SelectSeq(d, LAMBDA row : getFieldValue(row) # Null /\ Trim(getFieldValue(row)) # <<>>)

\* countOccurrences of duplicate-lines.js: counts per trimmed value
RECURSIVE LegacyCountRows(_, _)
LegacyCountRows(map, d) ==
    IF d = <<>> THEN map
    ELSE LET val == getFieldValue(Head(d))
         IN  LegacyCountRows(IF val # Null
                             THEN MapSet(map, Trim(val), MapGet(map, Trim(val)) + 1)
                             ELSE map,
                             Tail(d))

\* the map callback of findDuplicates of duplicate-lines.js over the
\* filtered rows; st is [seen, result, duplicates]
RECURSIVE LegacyMarkRows(_, _)
LegacyMarkRows(st, d) ==
    IF d = <<>> THEN st
    ELSE LET row == Head(d)
             val == Trim(getFieldValue(row))
             next ==
                 IF val \notin st.seen
                 THEN [seen |-> st.seen \cup {val},
                       result |-> Append(st.result, Spread(row, KeyDuplicate, StrFalse)),
                       duplicates |-> st.duplicates]
                 ELSE [seen |-> st.seen,
                       result |-> Append(st.result, Spread(row, KeyDuplicate, StrTrue)),
                       duplicates |-> Append(st.duplicates, row)]
         IN  LegacyMarkRows(next, Tail(d))

\* findDuplicates of duplicate-lines.js
LegacyFindDuplicates(d, map) ==
    LET filtered == SelectSeq(d, LAMBDA row : /\ getFieldValue(row) # Null
                                              /\ MapGet(map, Trim(getFieldValue(row))) > 1)
        st == LegacyMarkRows([seen |-> {}, result |-> <<>>, duplicates |-> <<>>], filtered)
    IN  [result |-> st.result, duplicates |-> st.duplicates]

\* the row at position n: the body column, and a column without a name in
\* some tables
LegacyRowsAt(n) ==
    { (ID :> IdOf(n)) @@ (ROW_NAME :> b) : b \in { <<>>, <<"v">>, <<" ", "v">>, <<"w">> } }
      \cup { (ID :> IdOf(n)) @@ (ROW_NAME :> b) @@ (ROW_NAME_ALT :> a) :
                 b \in { <<>>, <<"v">> }, a \in { <<>>, <<"v">> } }

RECURSIVE LegacyDatasets(_)
LegacyDatasets(n) ==
    IF n = 0 THEN { <<>> }
    ELSE LET shorter == LegacyDatasets(n - 1)
         IN  shorter \cup { Append(d, r) : d \in { x \in shorter : Len(x) = n - 1 },
                                           r \in LegacyRowsAt(n) }

\* the table goes through the single-field script, then through the
\* multi-field detector with every column but ROW_NAME excluded
InitLegacy ==
    /\ data \in LegacyDatasets(MaxRows)
    /\ excludedFields = {Handle, ID, Command, ROW_NAME_ALT}
    /\ cleaned = <<>>
    /\ occurrenceMap = EmptyMap
    /\ result = <<>>
    /\ duplicates = <<>>
    /\ fieldLists = <<>>
    /\ GenIdle
    /\ BatchIdle
    /\ pc = "legacyClean"

LegacyClean ==
    /\ pc = "legacyClean"
    /\ legacy' = [legacy EXCEPT !.cleaned = cleanData(data)]
    /\ pc' = "legacyCount"
    /\ UNCHANGED <<detVars, duplicates, genVars, batchVars, files, sanVars, mainVars, reports, exitCode>>

LegacyCount ==
    /\ pc = "legacyCount"
    /\ legacy' = [legacy EXCEPT !.occurrenceMap = LegacyCountRows(EmptyMap, legacy.cleaned)]
    /\ pc' = "legacyFind"
    /\ UNCHANGED <<detVars, duplicates, genVars, batchVars, files, sanVars, mainVars, reports, exitCode>>

LegacyFind ==
    /\ pc = "legacyFind"
    /\ LET r == LegacyFindDuplicates(legacy.cleaned, legacy.occurrenceMap)
       IN  legacy' = [legacy EXCEPT !.result = r.result, !.duplicates = r.duplicates]
    /\ pc' = "clean"
    /\ UNCHANGED <<detVars, duplicates, genVars, batchVars, files, sanVars, mainVars, reports, exitCode>>

NextLegacy == LegacyClean \/ LegacyCount \/ LegacyFind \/ Clean \/ Count \/ Find

SpecLegacy == InitLegacy /\ [][NextLegacy]_vars

\* row without its duplicateFields key
WithoutFieldList(row) == [k \in (DOMAIN row) \ { KeyDuplicateFields } |-> row[k]]

\* the value of the row in column ROW_NAME is the value of another annotated row
OccursMoreThanOnce(row) ==
    Cardinality({ n \in 1..Len(result) : Trim(result[n][ROW_NAME]) = Trim(row[ROW_NAME]) }) > 1

\* C30: when both detections have run on a table, the duplicates of the
\* single-field script are the rows of the duplicates of the multi-field
\* detector, in the same order, and its annotated result is the multi-field
\* annotated result, rows and flags, without the rows whose value occurs once
C30_LegacyEquivalence ==
    pc = "detected" =>
        /\ legacy.duplicates = [m \in 1..Len(duplicates) |-> WithoutFieldList(duplicates[m])]
        /\ legacy.result =
               SelectSeq([n \in 1..Len(result) |-> WithoutFieldList(result[n])], OccursMoreThanOnce)

====
